---------------------------- MODULE Spec2Model ----------------------------
(***************************************************************************)
(* The patience game of src/main.rs and the backtracking search play_one   *)
(* that classifies one deal.  Tableau indices are 0-based as in the source *)
(* (a TLA+ sequence is 1-based, so slot ix is t[ix + 1]).                  *)
(***************************************************************************)
EXTENDS Integers, Sequences, FiniteSets, TLC

(***************************************************************************)
(* Program constants.                                                      *)
(***************************************************************************)
NumRanks == 13

DeckSize == 52

\* The literal of `g.choice_points > 1_000_000`.
CapLimit == 1000000

(***************************************************************************)
(* Bounds of the model.                                                    *)
(***************************************************************************)
\* Besides CapLimit the cap is also run at every value 0..MaxCap, so that the
\* search gives up on deals that have more decision points than that.
MaxCap == 3

\* The cuts (rotations) of the deck that are dealt.
MaxCut == 3

\* The cuts of the deals of LiveInit.
MaxLiveCut == 1

\* The caps and the cuts of the deals of AnyInit.
MaxAnyCap == 5

MaxAnyCut == 2

VARIABLES
    deck,           \* Game.deck: [list, pos]
    tableau,        \* Game.tableau: sequence of PlacedCard
    choice_points,  \* Game.choice_points
    cap,            \* the cap play_one compares choice_points with
    wins,           \* play_one: wins
    losses,         \* play_one: losses
    to_retry,       \* play_one: to_retry, a stack of (SavedGame, Match)
    ret,            \* the Choices value play_to_choice returned last
    result,         \* what play_one returned: <<choice_points, Result>>
    pc,             \* where play_one is: play, returned, retry, done, panic
    op,             \* history: the operation that made this state
    before,         \* history: the SavedGame-shaped state the last make_match acted on
    mv,             \* history: the Match of the last make_match
    decisions,      \* history: pos, tableau and candidates of every ChooseOne returned
    retry_ids,      \* history: for each entry of to_retry, <<decision, candidate>>
    tried,          \* history: tried[dp][k] = how often candidate k of decision dp was applied
    last_id         \* history: <<decision, candidate>> of the pair popped last

vars == <<deck, tableau, choice_points, cap, wins, losses, to_retry, ret,
          result, pc, op, before, mv, decisions, retry_ids, tried, last_id>>

(***************************************************************************)
(* Card                                                                    *)
(***************************************************************************)
\* rank with one rank too few.
rank_TwelveRanks(c) == c % (NumRanks - 1)

rank(c) == c % NumRanks

suit(c) == c \div NumRanks

(***************************************************************************)
(* Deck                                                                    *)
(***************************************************************************)
new_unshuffled == [pos |-> 0, list |-> [i \in 1..DeckSize |-> i - 1]]

\* slice.swap(i, j), 0-based
Swap(l, i, j) == [l EXCEPT ![i + 1] = l[j + 1], ![j + 1] = l[i + 1]]

RECURSIVE ApplySwaps(_, _)
ApplySwaps(l, s) ==
    IF s = <<>> THEN l
    ELSE ApplySwaps(Swap(l, Head(s)[1], Head(s)[2]), Tail(s))

\* l rotated left by b places.
Cut(l, b) == [i \in 1..Len(l) |-> l[((i - 1 + b) % Len(l)) + 1]]

\* The swap sequences the shuffle is run with.  A shuffle is a sequence of
\* swaps of list positions; the generator's draws are taken from this set.
Shuffles ==
    { <<>>,
      << <<23, 37>> >>,
      << <<22, 36>> >>,
      << <<10, 37>> >>,
      << <<0, 27>> >>,
      << <<0, 48>> >>,
      << <<42, 45>>, <<50, 38>> >>,
      << <<13, 37>>, <<44, 25>>, <<42, 0>> >>,
      << <<23, 0>>, <<24, 48>>, <<48, 15>> >>,
      << <<41, 29>>, <<15, 42>> >>,
      << <<37, 0>>, <<22, 48>>, <<22, 39>> >>,
      << <<49, 32>>, <<25, 47>>, <<0, 24>> >>,
      << <<37, 51>> >>,
      << <<12, 22>> >> }

new_shuffled(s, b) ==
    [pos |-> 0, list |-> Cut(ApplySwaps(new_unshuffled.list, s), b)]

\* Deck::draw: <<>> is None, <<c>> is Some(c); the deck after the draw.
\* draw without self.pos += 1.
draw_deck_NoAdvance(d) == d

\* draw that takes the cards from the end of the list.
draw_card_FromEnd(d) ==
    IF d.pos >= Len(d.list) THEN <<>> ELSE <<d.list[Len(d.list) - d.pos]>>

draw_card(d) == IF d.pos >= Len(d.list) THEN <<>> ELSE <<d.list[d.pos + 1]>>

draw_deck(d) == IF d.pos >= Len(d.list) THEN d ELSE [d EXCEPT !.pos = @ + 1]

(***************************************************************************)
(* Match engine                                                            *)
(***************************************************************************)
PlacedCard(c) == [card |-> c, matches_one |-> FALSE, matches_three |-> FALSE]

is_match(a, b) ==
    IF suit(a.card) = suit(b.card) THEN "Suit"
    ELSE IF rank(a.card) = rank(b.card) THEN "Rank"
    ELSE "None"

\* usize arithmetic wraps at a power of two far above any tableau length; TLC's
\* integers are 32 bits wide, so the modulus stands at 2^30.
UsizeModulus == 2^30

\* A subtraction that stops at 0 and does not wrap.
wrapping_sub_Saturating(a, b) == IF a >= b THEN a - b ELSE 0

wrapping_sub(a, b) == (a - b) % UsizeModulus

\* Vec::get: <<>> is None.
Get(t, j) == IF j < Len(t) THEN <<t[j + 1]>> ELSE <<>>

MatchesAt(t, ix, dist) ==
    LET b == Get(t, wrapping_sub(ix, dist))
    IN  b # <<>> /\ is_match(t[ix + 1], b[1]) # "None"

check_matches_at(t, ix) ==
    IF ix >= Len(t) THEN t
    ELSE [t EXCEPT ![ix + 1] =
              [card          |-> t[ix + 1].card,
               matches_one   |-> MatchesAt(t, ix, 1),
               matches_three |-> MatchesAt(t, ix, 3)]]

\* The recomputation stopped one slot early: for ix in ix..ix+2.
CheckThree_TwoOnly(t, ix) == check_matches_at(check_matches_at(t, ix), ix + 1)

\* for ix in ix..=ix+2 { self.check_matches_at(ix) }
CheckThree(t, ix) ==
    check_matches_at(check_matches_at(check_matches_at(t, ix), ix + 1), ix + 2)

\* Vec::remove
RemoveAt(t, ix) == SubSeq(t, 1, ix) \o SubSeq(t, ix + 2, Len(t))

remove_card(t, ix) == CheckThree(RemoveAt(t, ix), ix)

place_card(t, c, ix) == CheckThree([t EXCEPT ![ix + 1] = PlacedCard(c)], ix)

\* find_matches that looks at matches_one only.
find_matches_OneOnly(t) ==
    LET all == [k \in 1..Len(t) |-> <<k - 1, 1>>]
        flagged(m) == t[m[1] + 1].matches_one
    IN  SelectSeq(all, flagged)

find_matches(t) ==
    LET all == [k \in 1..(2 * Len(t)) |->
                    <<(k - 1) \div 2, IF k % 2 = 1 THEN 1 ELSE 3>>]
        flagged(m) == IF m[2] = 1 THEN t[m[1] + 1].matches_one
                      ELSE t[m[1] + 1].matches_three
    IN  SelectSeq(all, flagged)

\* m.0 - d does not underflow and remove(from) is in range; place_card's
\* index m.0 - d is then below the shortened length.
MatchInRange(t, m) == m[2] <= m[1] /\ m[1] < Len(t)

\* make_match that drops the partner and leaves the matching card where it is.
make_match_DropsPartner(t, m) == remove_card(t, m[1] - m[2])

\* make_match that puts the card on its partner without taking it from where
\* it was.
make_match_KeepsCard(t, m) == place_card(t, t[m[1] + 1].card, m[1] - m[2])

make_match(t, m) ==
    LET from      == m[1]
        to        == m[1] - m[2]
        picked_up == t[from + 1].card
    IN  place_card(remove_card(t, from), picked_up, to)

deal_card(t, c) == check_matches_at(Append(t, PlacedCard(c)), Len(t))

\* save_game that leaves the last card of the tableau out of the copy.
save_game_DropsLast(d, t) == [pos |-> d.pos, tableau |-> SubSeq(t, 1, Len(t) - 1)]

save_game(d, t) == [pos |-> d.pos, tableau |-> t]


\* restore that leaves the cursor where it is.
restore_KeepsCursor(d, saved) == d

restore(d, saved) == [d EXCEPT !.pos = saved.pos]

(***************************************************************************)
(* play_to_choice and play_one, step by step                               *)
(***************************************************************************)
\* The two outcomes taken for each other.
TerminalOutcome_Inverted(t) == IF Len(t) = 1 THEN "GameLost" ELSE "GameWon"

\* if self.tableau.len() == 1 { GameWon } else { GameLost }
TerminalOutcome(t) == IF Len(t) = 1 THEN "GameWon" ELSE "GameLost"

\* The cap compared with >= .
CapExceeded_AtCap(cp, c) == cp >= c

\* if g.choice_points > cap
CapExceeded(cp, c) == cp > c

\* Classify with the two tallies taken for each other.
Classify_Swapped(w, l) ==
    IF w = 0 THEN "AlwaysWin" ELSE IF l = 0 THEN "AlwaysLose" ELSE "CanWin"

Classify(w, l) ==
    IF l = 0 THEN "AlwaysWin" ELSE IF w = 0 THEN "AlwaysLose" ELSE "CanWin"

NoRet == [tag |-> "None", list |-> <<>>]

NoSaved == [pos |-> 0, tableau |-> <<>>]

Caps == (0..MaxCap) \cup {CapLimit}

\* play_one up to its loop, the deck shuffled by one of shuffles and cut at
\* one of 0..cut, the cap one of caps.
InitWith(shuffles, cut, caps) ==
    /\ \E s \in shuffles, b \in 0..cut : deck = new_shuffled(s, b)
    /\ tableau = <<>>
    /\ choice_points = 0
    /\ cap \in caps
    /\ wins = 0
    /\ losses = 0
    /\ to_retry = <<>>
    /\ ret = NoRet
    /\ result = <<>>
    /\ pc = "play"
    /\ op = "new"
    /\ before = NoSaved
    /\ mv = <<>>
    /\ decisions = <<>>
    /\ retry_ids = <<>>
    /\ tried = <<>>
    /\ last_id = <<>>

Init == InitWith(Shuffles, MaxCut, Caps)

\* play_to_choice, arm 0, deal_card() is Some
DealCard ==
    /\ pc = "play"
    /\ Len(find_matches(tableau)) = 0
    /\ draw_card(deck) # <<>>
    /\ deck' = draw_deck(deck)
    /\ tableau' = deal_card(tableau, draw_card(deck)[1])
    /\ op' = "deal"
    /\ UNCHANGED <<choice_points, cap, wins, losses, to_retry, ret, result, pc,
                   before, mv, decisions, retry_ids, tried, last_id>>

\* play_to_choice, arm 0, deal_card() is None
ReturnTerminal ==
    /\ pc = "play"
    /\ Len(find_matches(tableau)) = 0
    /\ draw_card(deck) = <<>>
    /\ deck' = draw_deck(deck)
    /\ ret' = [tag |-> TerminalOutcome(tableau), list |-> <<>>]
    /\ pc' = "returned"
    /\ op' = "terminal"
    /\ UNCHANGED <<tableau, choice_points, cap, wins, losses, to_retry, result,
                   before, mv, decisions, retry_ids, tried, last_id>>

\* play_to_choice, arm 1
ForcedMatch ==
    /\ pc = "play"
    /\ Len(find_matches(tableau)) = 1
    /\ LET m == find_matches(tableau)[1]
       IN  /\ IF MatchInRange(tableau, m)
              THEN tableau' = make_match(tableau, m) /\ pc' = "play"
              ELSE tableau' = tableau /\ pc' = "panic"
           /\ before' = save_game(deck, tableau)
           /\ mv' = m
    /\ op' = "forced"
    /\ UNCHANGED <<deck, choice_points, cap, wins, losses, to_retry, ret,
                   result, decisions, retry_ids, tried, last_id>>

\* play_to_choice, arm _
ReturnChooseOne ==
    /\ pc = "play"
    /\ Len(find_matches(tableau)) > 1
    /\ choice_points' = choice_points + 1
    /\ ret' = [tag |-> "ChooseOne", list |-> find_matches(tableau)]
    /\ pc' = "returned"
    /\ op' = "choose"
    /\ decisions' = Append(decisions,
           [pos |-> deck.pos, tableau |-> tableau, list |-> find_matches(tableau)])
    /\ tried' = Append(tried, [k \in 1..Len(find_matches(tableau)) |-> 0])
    /\ UNCHANGED <<deck, tableau, cap, wins, losses, to_retry, result,
                   before, mv, retry_ids, last_id>>

\* The GameWon arm without wins += 1.
TallyWon_NoCount ==
    /\ pc = "returned"
    /\ ret.tag = "GameWon"
    /\ pc' = "retry"
    /\ op' = "won"
    /\ UNCHANGED <<deck, tableau, choice_points, cap, wins, losses, to_retry, ret,
                   result, before, mv, decisions, retry_ids, tried, last_id>>

\* play_one, arm Choices::GameWon
TallyWon ==
    /\ pc = "returned"
    /\ ret.tag = "GameWon"
    /\ wins' = wins + 1
    /\ pc' = "retry"
    /\ op' = "won"
    /\ UNCHANGED <<deck, tableau, choice_points, cap, losses, to_retry, ret,
                   result, before, mv, decisions, retry_ids, tried, last_id>>

\* play_one, arm Choices::GameLost
TallyLost ==
    /\ pc = "returned"
    /\ ret.tag = "GameLost"
    /\ losses' = losses + 1
    /\ pc' = "retry"
    /\ op' = "lost"
    /\ UNCHANGED <<deck, tableau, choice_points, cap, wins, to_retry, ret,
                   result, before, mv, decisions, retry_ids, tried, last_id>>

\* for ch in c { to_retry.push((g.save_game(), ch)) }, leaving out the first.
Pushes_SkipFirst(d, t, c) ==
    [k \in 1..(Len(c) - 1) |-> [saved |-> save_game(d, t), m |-> c[k + 1]]]

\* for ch in c { to_retry.push((g.save_game(), ch)) }
Pushes(d, t, c) ==
    [k \in 1..Len(c) |-> [saved |-> save_game(d, t), m |-> c[k]]]

\* play_one, arm Choices::ChooseOne(c): the pushes, then the cap
PushChoices ==
    /\ pc = "returned"
    /\ ret.tag = "ChooseOne"
    /\ to_retry' = to_retry \o Pushes(deck, tableau, ret.list)
    /\ retry_ids' = retry_ids \o
           [k \in 1..Len(ret.list) |-> <<Len(decisions), k>>]
    /\ IF CapExceeded(choice_points, cap)
       THEN result' = <<choice_points, "GaveUp">> /\ pc' = "done"
       ELSE result' = result /\ pc' = "retry"
    /\ op' = "push"
    /\ UNCHANGED <<deck, tableau, choice_points, cap, wins, losses, ret,
                   before, mv, decisions, tried, last_id>>

\* Retry with choice_points kept per branch: restore rewinds it to the count
\* of the decision point it goes back to.
Retry_RewindsCounter ==
    /\ pc = "retry"
    /\ to_retry # <<>>
    /\ LET x  == to_retry[Len(to_retry)]
           id == retry_ids[Len(retry_ids)]
       IN  /\ to_retry' = SubSeq(to_retry, 1, Len(to_retry) - 1)
           /\ deck' = restore(deck, x.saved)
           /\ choice_points' = id[1]
           /\ IF MatchInRange(x.saved.tableau, x.m)
              THEN tableau' = make_match(x.saved.tableau, x.m) /\ pc' = "play"
              ELSE tableau' = x.saved.tableau /\ pc' = "panic"
           /\ before' = x.saved
           /\ mv' = x.m
           /\ last_id' = id
           /\ tried' = [tried EXCEPT ![id[1]][id[2]] = @ + 1]
    /\ retry_ids' = SubSeq(retry_ids, 1, Len(retry_ids) - 1)
    /\ op' = "retry"
    /\ UNCHANGED <<cap, wins, losses, ret, result, decisions>>

\* Retry that takes the pair pushed first (a queue) and not the one pushed
\* last.
Retry_FromFront ==
    /\ pc = "retry"
    /\ to_retry # <<>>
    /\ LET x  == to_retry[1]
           id == retry_ids[1]
       IN  /\ to_retry' = Tail(to_retry)
           /\ deck' = restore(deck, x.saved)
           /\ IF MatchInRange(x.saved.tableau, x.m)
              THEN tableau' = make_match(x.saved.tableau, x.m) /\ pc' = "play"
              ELSE tableau' = x.saved.tableau /\ pc' = "panic"
           /\ before' = x.saved
           /\ mv' = x.m
           /\ last_id' = id
           /\ tried' = [tried EXCEPT ![id[1]][id[2]] = @ + 1]
    /\ retry_ids' = Tail(retry_ids)
    /\ op' = "retry"
    /\ UNCHANGED <<choice_points, cap, wins, losses, ret, result, decisions>>

\* play_one: if let Some(x) = to_retry.pop() { g.restore(x.0); g.make_choice(x.1) }
Retry ==
    /\ pc = "retry"
    /\ to_retry # <<>>
    /\ LET x  == to_retry[Len(to_retry)]
           id == retry_ids[Len(retry_ids)]
       IN  /\ to_retry' = SubSeq(to_retry, 1, Len(to_retry) - 1)
           /\ deck' = restore(deck, x.saved)
           /\ IF MatchInRange(x.saved.tableau, x.m)
              THEN tableau' = make_match(x.saved.tableau, x.m) /\ pc' = "play"
              ELSE tableau' = x.saved.tableau /\ pc' = "panic"
           /\ before' = x.saved
           /\ mv' = x.m
           /\ last_id' = id
           /\ tried' = [tried EXCEPT ![id[1]][id[2]] = @ + 1]
    /\ retry_ids' = SubSeq(retry_ids, 1, Len(retry_ids) - 1)
    /\ op' = "retry"
    /\ UNCHANGED <<choice_points, cap, wins, losses, ret, result, decisions>>

\* play_one: else { break }, then the classification
Finish ==
    /\ pc = "retry"
    /\ to_retry = <<>>
    /\ result' = <<choice_points, Classify(wins, losses)>>
    /\ pc' = "done"
    /\ op' = "finish"
    /\ UNCHANGED <<deck, tableau, choice_points, cap, wins, losses, to_retry,
                   ret, before, mv, decisions, retry_ids, tried, last_id>>

Next ==
    \/ DealCard
    \/ ReturnTerminal
    \/ ForcedMatch
    \/ ReturnChooseOne
    \/ TallyWon
    \/ TallyLost
    \/ PushChoices
    \/ Retry
    \/ Finish

Spec == Init /\ [][Next]_vars

(***************************************************************************)
(* The search with the pending pairs taken in any order: Retry with the    *)
(* pair taken from any place of to_retry, not only its end.  The code      *)
(* takes the last; this is the search the order-independence claim speaks  *)
(* of.                                                                     *)
(***************************************************************************)
RetryAny ==
    /\ pc = "retry"
    /\ to_retry # <<>>
    /\ \E i \in 1..Len(to_retry) :
           LET x  == to_retry[i]
               id == retry_ids[i]
           IN  /\ to_retry' = SubSeq(to_retry, 1, i - 1) \o
                              SubSeq(to_retry, i + 1, Len(to_retry))
               /\ retry_ids' = SubSeq(retry_ids, 1, i - 1) \o
                               SubSeq(retry_ids, i + 1, Len(retry_ids))
               /\ deck' = restore(deck, x.saved)
               /\ IF MatchInRange(x.saved.tableau, x.m)
                  THEN tableau' = make_match(x.saved.tableau, x.m) /\ pc' = "play"
                  ELSE tableau' = x.saved.tableau /\ pc' = "panic"
               /\ before' = x.saved
               /\ mv' = x.m
               /\ last_id' = id
               /\ tried' = [tried EXCEPT ![id[1]][id[2]] = @ + 1]
    /\ op' = "retry"
    /\ UNCHANGED <<choice_points, cap, wins, losses, ret, result, decisions>>

NextAnyOrder ==
    \/ DealCard
    \/ ReturnTerminal
    \/ ForcedMatch
    \/ ReturnChooseOne
    \/ TallyWon
    \/ TallyLost
    \/ PushChoices
    \/ RetryAny
    \/ Finish

\* The deals searched in any order, with the cap at 0..MaxAnyCap.
AnyShuffles ==
    { <<>>,
      << <<37, 51>> >>,
      << <<23, 37>> >>,
      << <<42, 45>>, <<50, 38>> >>,
      << <<13, 37>>, <<44, 25>>, <<42, 0>> >>,
      << <<0, 48>> >> }

AnyInit == InitWith(AnyShuffles, MaxAnyCut, 0..MaxAnyCap)

SpecAnyOrder == AnyInit /\ [][NextAnyOrder]_vars

\* The deals whose runs are checked for what they reach in the end: fewer than
\* Init's, the same otherwise.
LiveShuffles == {<<>>, << <<37, 51>> >>, << <<23, 37>> >>}

LiveInit == InitWith(LiveShuffles, MaxLiveCut, Caps)

\* The program runs on until play_one returns.
FairSpec == LiveInit /\ [][Next]_vars /\ WF_vars(Next)

(***************************************************************************)
(* play_to_choice as one call: the Choices it returns and the game it      *)
(* leaves, from the deck d and the tableau t.                              *)
(***************************************************************************)
\* One iteration of the loop of play_to_choice; a game that has returned stays.
play_to_choice_step(g) ==
    IF g.tag # "Playing" THEN g
    ELSE LET choices == find_matches(g.tableau)
         IN  IF Len(choices) = 0
             THEN IF draw_card(g.deck) # <<>>
                  THEN [g EXCEPT !.deck = draw_deck(g.deck),
                                 !.tableau = deal_card(g.tableau, draw_card(g.deck)[1])]
                  ELSE [g EXCEPT !.tag = TerminalOutcome(g.tableau)]
             ELSE IF Len(choices) = 1
             THEN IF MatchInRange(g.tableau, choices[1])
                  THEN [g EXCEPT !.tableau = make_match(g.tableau, choices[1])]
                  ELSE [g EXCEPT !.tag = "Panic"]
             ELSE [g EXCEPT !.tag = "ChooseOne", !.list = choices]

\* TLC evaluates a definition when it is first used: each iteration is used
\* (its tag is read) before the next is taken, so that none is evaluated
\* inside another.
Returned(g) == g.tag # "Playing"

Steps4(g) ==
    LET g1 == play_to_choice_step(g)
        g2 == play_to_choice_step(g1)
        g3 == play_to_choice_step(g2)
        g4 == play_to_choice_step(g3)
    IN  IF Returned(g1) THEN g1
        ELSE IF Returned(g2) THEN g2
        ELSE IF Returned(g3) THEN g3
        ELSE g4

Steps16(g) ==
    LET g1 == Steps4(g)
        g2 == Steps4(g1)
        g3 == Steps4(g2)
        g4 == Steps4(g3)
    IN  IF Returned(g1) THEN g1
        ELSE IF Returned(g2) THEN g2
        ELSE IF Returned(g3) THEN g3
        ELSE g4

Steps64(g) ==
    LET g1 == Steps16(g)
        g2 == Steps16(g1)
        g3 == Steps16(g2)
        g4 == Steps16(g3)
    IN  IF Returned(g1) THEN g1
        ELSE IF Returned(g2) THEN g2
        ELSE IF Returned(g3) THEN g3
        ELSE g4

\* A call makes at most DeckSize deals, fewer forced matches than deals, and
\* one return: 2 * DeckSize iterations at most, and 128 are run.
play_to_choice(d, t) ==
    LET g0 == [tag |-> "Playing", list |-> <<>>, deck |-> d, tableau |-> t]
        g1 == Steps64(g0)
    IN  IF Returned(g1) THEN g1 ELSE Steps64(g1)

(***************************************************************************)
(* The tree of choices below a game: <<won, lost>>, the numbers of its     *)
(* branches that end GameWon and GameLost, every candidate of every        *)
(* decision point followed.                                                *)
(***************************************************************************)
RECURSIVE Leaves(_, _)
RECURSIVE LeavesFrom(_, _)
Leaves(d, t) ==
    LET r == play_to_choice(d, t)
    IN  IF r.tag = "GameWon" THEN <<1, 0>>
        ELSE IF r.tag = "GameLost" THEN <<0, 1>>
        ELSE IF r.tag = "ChooseOne" THEN LeavesFrom(r, 1)
        ELSE <<0, 0>>

LeavesFrom(r, k) ==
    IF k > Len(r.list) THEN <<0, 0>>
    ELSE LET here == IF MatchInRange(r.tableau, r.list[k])
                     THEN Leaves(r.deck, make_match(r.tableau, r.list[k]))
                     ELSE <<0, 0>>
             rest == LeavesFrom(r, k + 1)
         IN  <<here[1] + rest[1], here[2] + rest[2]>>

\* The tree of the whole deal.
DealLeaves == Leaves([deck EXCEPT !.pos = 0], <<>>)

Classified == pc = "done" /\ result[2] # "GaveUp"

(***************************************************************************)
(* What the flags of a tableau ought to be.                                *)
(***************************************************************************)
SharesSuitOrRank(c1, c2) == suit(c1) = suit(c2) \/ rank(c1) = rank(c2)

\* Whether slot p (0-based) of t holds a card that shares a suit or a rank
\* with the card dist slots to its left.
RealMatch(t, p, dist) == p >= dist /\ SharesSuitOrRank(t[p + 1].card, t[p - dist + 1].card)

FlagsConsistent(t) ==
    \A p \in 0..(Len(t) - 1) :
        /\ t[p + 1].matches_one = RealMatch(t, p, 1)
        /\ t[p + 1].matches_three = RealMatch(t, p, 3)

\* C1: in every reachable state, for every tableau position p, matches_one(p)
\* holds exactly when p >= 1 and the cards at p and p-1 share a suit or a rank,
\* and matches_three(p) exactly when p >= 3 and the cards at p and p-3 do.
C1_FlagsConsistent == FlagsConsistent(tableau)

\* C2: when play_one returns without giving up, wins and losses are the
\* numbers of branches of the deal's tree that end Won and Lost, and the
\* result is AlwaysWin if no branch is Lost, AlwaysLose if no branch is Won
\* (and one is Lost), CanWin if there are both.
C2_Classification ==
    Classified =>
        /\ <<wins, losses>> = DealLeaves
        /\ result[1] = choice_points
        /\ (result[2] = "AlwaysWin") = (DealLeaves[2] = 0)
        /\ (result[2] = "AlwaysLose") = (DealLeaves[2] > 0 /\ DealLeaves[1] = 0)
        /\ (result[2] = "CanWin") = (DealLeaves[2] > 0 /\ DealLeaves[1] > 0)

C2_Witness == Classified /\ result[2] = "CanWin" /\ wins >= 2 /\ losses >= 2

(***************************************************************************)
(* The decision points met so far and their candidates.                    *)
(***************************************************************************)
\* <<dp, k>>: candidate k of the dp-th decision point.
AllIds ==
    UNION {{<<dp, k>> : k \in 1..Len(decisions[dp].list)} : dp \in 1..Len(decisions)}

PendingIds == {retry_ids[i] : i \in 1..Len(retry_ids)}

Snapshot(dp) == [pos |-> decisions[dp].pos, tableau |-> decisions[dp].tableau]

\* C3: every candidate of every decision point is applied exactly once, to the
\* snapshot of its decision point; the candidates not applied yet are the
\* pending ones; and play_one returns a classification only with the work
\* list empty, every candidate applied and every branch tallied Won or Lost.
C3_Exhaustive ==
    /\ \A id \in AllIds : tried[id[1]][id[2]] <= 1
    /\ Len(tried) = Len(decisions)
    /\ Len(retry_ids) = Len(to_retry)
    /\ Cardinality(PendingIds) = Len(retry_ids)
    /\ ~(pc = "done" /\ result[2] = "GaveUp") =>
           \A id \in AllIds :
               (tried[id[1]][id[2]] = 0) =
                   (\/ id \in PendingIds
                    \/ pc = "returned" /\ ret.tag = "ChooseOne" /\ id[1] = Len(decisions))
    /\ op = "retry" =>
           /\ before = Snapshot(last_id[1])
           /\ mv = decisions[last_id[1]].list[last_id[2]]
           /\ tried[last_id[1]][last_id[2]] = 1
    /\ Classified =>
           /\ to_retry = <<>>
           /\ \A id \in AllIds : tried[id[1]][id[2]] = 1
           /\ wins + losses = 1 + Cardinality(AllIds) - Len(decisions)

C3_Witness ==
    /\ Classified
    /\ Len(decisions) >= 3
    /\ \E dp \in 1..Len(decisions) : Len(decisions[dp].list) >= 3

\* C4: play_one returns GaveUp exactly when choice_points exceeds the cap at a
\* decision point; it then returns at once, with no restore and no move, the
\* counter value reached; with the cap at 0 the first decision point gives
\* <<1, GaveUp>>.
C4_SearchCap ==
    /\ pc = "done" => ((result[2] = "GaveUp") = (choice_points > cap))
    /\ choice_points > cap => pc \in {"returned", "done"} /\ op \in {"choose", "push"}
    /\ (pc = "done" /\ result[2] = "GaveUp") =>
           /\ result[1] = choice_points
           /\ choice_points = cap + 1
           /\ op = "push"
           /\ save_game(deck, tableau) = Snapshot(Len(decisions))
    /\ (cap = 0 /\ choice_points >= 1) =>
           /\ choice_points = 1
           /\ pc = "done" => result = <<1, "GaveUp">>

C4_Witness == pc = "done" /\ cap = 0 /\ result = <<1, "GaveUp">>

NoFlagSet(t) ==
    \A p \in 0..(Len(t) - 1) : ~t[p + 1].matches_one /\ ~t[p + 1].matches_three

\* C5: play_to_choice returns GameWon only with the deck exhausted (cursor 52),
\* no candidate and exactly one card in the tableau, and GameLost only with
\* the deck exhausted, no candidate and more than one card.
C5_TerminalOutcomes ==
    (pc = "returned" /\ ret.tag \in {"GameWon", "GameLost"}) =>
        /\ deck.pos = DeckSize
        /\ Len(deck.list) = DeckSize
        /\ NoFlagSet(tableau)
        /\ find_matches(tableau) = <<>>
        /\ ret.tag = "GameWon" => Len(tableau) = 1
        /\ ret.tag = "GameLost" => Len(tableau) > 1

C5_Witness ==
    pc = "returned" /\ ret.tag = "GameWon" /\ choice_points > 0 /\ losses > 0

\* The (position, distance) pairs whose flag is set.
FlagSet(t) ==
    {<<p, 1>> : p \in {q \in 0..(Len(t) - 1) : t[q + 1].matches_one}} \cup
    {<<p, 3>> : p \in {q \in 0..(Len(t) - 1) : t[q + 1].matches_three}}

ReturnsChooseOne == pc = "play" /\ pc' = "returned" /\ ret'.tag = "ChooseOne"

\* C6: play_to_choice returns ChooseOne only with two or more candidates; the
\* list holds one candidate per set flag of the tableau, each of distance 1 or
\* 3; the return makes no move; and a single candidate is played at once.
C6_ChoicePoint ==
    /\ [](pc = "returned" /\ ret.tag = "ChooseOne" =>
            /\ Len(ret.list) >= 2
            /\ \A i \in 1..Len(ret.list) : ret.list[i][2] \in {1, 3}
            /\ {ret.list[i] : i \in 1..Len(ret.list)} = FlagSet(tableau)
            /\ Len(ret.list) = Cardinality(FlagSet(tableau)))
    /\ [][/\ ReturnsChooseOne =>
                /\ tableau' = tableau
                /\ deck' = deck
                /\ Cardinality(FlagSet(tableau)) >= 2
          /\ (pc = "play" /\ Cardinality(FlagSet(tableau)) = 1) =>
                /\ ~ReturnsChooseOne
                /\ pc' = "play"
                /\ Len(tableau') = Len(tableau) - 1]_vars

C6_Witness ==
    /\ pc = "returned"
    /\ ret.tag = "ChooseOne"
    /\ \E p \in 0..(Len(tableau) - 1) :
           tableau[p + 1].matches_one /\ tableau[p + 1].matches_three

Cards(t) == {t[j].card : j \in 1..Len(t)}

\* C7: make_match((i, d)) on a tableau T of length n, d <= i < n, leaves a
\* tableau of length n - 1 with T[i] at slot i - d, T[j] at every other slot
\* j < i and T[j + 1] at every slot j >= i; T[i - d] is the one card that
\* leaves, and the deck cursor stays.
C7_MakeMatchEffect ==
    (op \in {"forced", "retry"} /\ pc # "panic") =>
        LET T == before.tableau
            i == mv[1]
            d == mv[2]
            n == Len(T)
        IN  /\ d <= i /\ i < n
            /\ Len(tableau) = n - 1
            /\ tableau[i - d + 1].card = T[i + 1].card
            /\ \A j \in 0..(n - 2) :
                   j # i - d =>
                       tableau[j + 1].card =
                           IF j < i THEN T[j + 1].card ELSE T[j + 2].card
            /\ Cards(tableau) = Cards(T) \ {T[i - d + 1].card}
            /\ Cardinality(Cards(tableau)) = n - 1
            /\ deck.pos = before.pos

C7_Witness ==
    /\ op = "retry"
    /\ pc = "play"
    /\ mv[2] = 3
    /\ mv[1] + 1 < Len(before.tableau)

\* C9: choice_points goes up by exactly one when play_to_choice returns
\* ChooseOne and is left alone by every other step (deal, forced match, save,
\* restore, make_choice); it equals the number of decision points met so
\* far over all branches.
C9_Counter ==
    /\ [](choice_points = Len(decisions))
    /\ [][choice_points' = choice_points + (IF ReturnsChooseOne THEN 1 ELSE 0)]_vars

\* The search has gone back to a decision point earlier than the latest.
C9_Witness == op = "retry" /\ last_id[1] < choice_points /\ choice_points >= 3

\* C10: from the unshuffled deck the search terminates, does not give up, and
\* returns one of AlwaysWin, AlwaysLose, CanWin with every branch tallied Won
\* or Lost and nothing pending.
C10_Unshuffled ==
    (deck.list = new_unshuffled.list) ~>
        /\ Classified
        /\ result[2] \in {"AlwaysWin", "AlwaysLose", "CanWin"}
        /\ to_retry = <<>>
        /\ wins + losses = 1 + Cardinality(AllIds) - Len(decisions)
        /\ \A id \in AllIds : tried[id[1]][id[2]] = 1

C10_Witness ==
    /\ deck.list = new_unshuffled.list
    /\ deck.list = [i \in 1..52 |-> i - 1]
    /\ Classified
    /\ result = <<0, "AlwaysWin">>
    /\ <<wins, losses>> = <<1, 0>>

\* C8: for a fixed deck, whatever the order in which the pending pairs are
\* taken from the work list, a search that does not give up returns the
\* classification of the deal's tree, which the deck alone decides.
C8_OrderIndependent ==
    Classified =>
        /\ <<wins, losses>> = DealLeaves
        /\ result[2] = IF DealLeaves[2] = 0 THEN "AlwaysWin"
                       ELSE IF DealLeaves[1] = 0 THEN "AlwaysLose"
                       ELSE "CanWin"

\* The game that the k-th candidate of the first decision point leads to.
AfterFirstChoice(k) ==
    play_to_choice(restore(deck, Snapshot(1)),
                   make_match(decisions[1].tableau, decisions[1].list[k]))

\* A search that returned a classification after taking the pairs in another
\* order than the code's: the first and the last candidate of the first
\* decision point lead to different decision points, and the second decision
\* point the search met is the one below the first candidate (the code's
\* order meets the one below the last candidate first).
C8_Witness ==
    /\ Classified
    /\ Len(decisions) >= 2
    /\ LET first == AfterFirstChoice(1)
           last  == AfterFirstChoice(Len(decisions[1].list))
       IN  /\ first.tag = "ChooseOne"
           /\ last.tag = "ChooseOne"
           /\ save_game(first.deck, first.tableau) # save_game(last.deck, last.tableau)
           /\ Snapshot(2) = save_game(first.deck, first.tableau)

\* C11: a classification is returned with at least one outcome tallied;
\* AlwaysWin has a Won branch and AlwaysLose a Lost branch; a deal with no
\* choice point tallies exactly one outcome and is AlwaysWin or AlwaysLose.
C11_TallyNotEmpty ==
    Classified =>
        /\ wins + losses >= 1
        /\ result[2] = "AlwaysWin" => wins >= 1 /\ losses = 0
        /\ result[2] = "AlwaysLose" => losses >= 1 /\ wins = 0
        /\ result[2] = "CanWin" => wins >= 1 /\ losses >= 1
        /\ choice_points = 0 =>
               /\ wins + losses = 1
               /\ result[2] \in {"AlwaysWin", "AlwaysLose"}

\* A deal lost without a single choice point.
C11_Witness ==
    /\ Classified
    /\ choice_points = 0
    /\ result = <<0, "AlwaysLose">>
    /\ <<wins, losses>> = <<0, 1>>

\* The flags of slot p of t, if there is one, are what a comparison of its
\* card with the cards 1 and 3 slots to its left gives.
FreshAt(t, p) ==
    p < Len(t) =>
        /\ t[p + 1].matches_one = RealMatch(t, p, 1)
        /\ t[p + 1].matches_three = RealMatch(t, p, 3)

\* r is T after remove_card(ix): the slots ix..ix+2 are fresh, every other
\* card has the flags it had.
RemoveIsLocal(T, ix, r) ==
    /\ Len(r) = Len(T) - 1
    /\ \A p \in ix..(ix + 2) : FreshAt(r, p)
    /\ \A p \in 0..(Len(r) - 1) :
           /\ r[p + 1].card = (IF p < ix THEN T[p + 1].card ELSE T[p + 2].card)
           /\ p \notin ix..(ix + 2) =>
                  r[p + 1] = (IF p < ix THEN T[p + 1] ELSE T[p + 2])

\* r is T after place_card(c, ix).
PlaceIsLocal(T, c, ix, r) ==
    /\ Len(r) = Len(T)
    /\ r[ix + 1].card = c
    /\ \A p \in ix..(ix + 2) : FreshAt(r, p)
    /\ \A p \in 0..(Len(r) - 1) :
           /\ p # ix => r[p + 1].card = T[p + 1].card
           /\ p \notin ix..(ix + 2) => r[p + 1] = T[p + 1]

\* r is T after deal_card has appended a card.
DealIsLocal(T, r) ==
    /\ Len(r) = Len(T) + 1
    /\ FreshAt(r, Len(T))
    /\ SubSeq(r, 1, Len(T)) = T

\* C12: remove_card(ix), place_card(_, ix) and deal_card leave the flags of
\* the slots ix, ix+1, ix+2 that exist equal to a fresh comparison with the
\* cards 1 and 3 slots to the left, and the flags of every other card as they
\* were; Two of Clubs dealt on Ace of Clubs has matches_one and not
\* matches_three.
C12_LocalRecompute ==
    /\ []((op \in {"forced", "retry"} /\ pc # "panic") =>
            LET T   == before.tableau
                mid == remove_card(T, mv[1])
            IN  /\ RemoveIsLocal(T, mv[1], mid)
                /\ PlaceIsLocal(mid, T[mv[1] + 1].card, mv[1] - mv[2], tableau))
    /\ []((op = "deal" /\ Len(tableau) = 2
                /\ tableau[1].card = 0 /\ tableau[2].card = 1) =>
            tableau[2].matches_one /\ ~tableau[2].matches_three)
    /\ [][op' = "deal" => DealIsLocal(tableau, tableau')]_vars

\* A match whose card was placed at a slot with cards to its left and a card
\* to the right of the three slots recomputed.
C12_Witness ==
    /\ op \in {"forced", "retry"}
    /\ pc = "play"
    /\ mv[1] - mv[2] >= 1
    /\ mv[1] - mv[2] + 3 < Len(tableau)

\* The deck d with its cursor at k.
DeckAt(d, k) == [d EXCEPT !.pos = k]

\* C13: the deck's list holds each of the 52 identities once and never
\* changes; a draw with the cursor k below 52 returns the k-th card of the
\* list and moves the cursor to k + 1, so 52 draws from a new deck return every
\* identity once in list order; a draw with the cursor at 52 reports
\* exhaustion and leaves the cursor at 52.
C13_DeckDraw ==
    /\ [](/\ Len(deck.list) = DeckSize
          /\ {deck.list[k] : k \in 1..DeckSize} = 0..(DeckSize - 1)
          /\ deck.pos \in 0..DeckSize
          /\ Cards(tableau) \subseteq {deck.list[k] : k \in 1..deck.pos}
          /\ \A k \in 0..(DeckSize - 1) :
                 /\ draw_card(DeckAt(deck, k)) = <<deck.list[k + 1]>>
                 /\ draw_deck(DeckAt(deck, k)) = DeckAt(deck, k + 1)
          /\ draw_card(DeckAt(deck, DeckSize)) = <<>>
          /\ draw_deck(DeckAt(deck, DeckSize)) = DeckAt(deck, DeckSize))
    /\ [][/\ deck'.list = deck.list
          /\ op' = "deal" =>
                 /\ deck.pos < DeckSize
                 /\ deck'.pos = deck.pos + 1
                 /\ tableau'[Len(tableau')].card = deck.list[deck.pos + 1]
          /\ op' = "terminal" =>
                 /\ deck.pos = DeckSize
                 /\ deck'.pos = DeckSize]_vars

\* A shuffled deck drawn 52 times in a row from its creation, no restore in
\* between, and the 53rd draw made.
C13_Witness ==
    /\ op = "terminal"
    /\ last_id = <<>>
    /\ deck.pos = DeckSize
    /\ deck.list # new_unshuffled.list

\* The identities of the cards of the deck.
Identities == {deck.list[k] : k \in 1..Len(deck.list)}

\* C14: every identity i of 0..51 has a rank i mod 13 among the 13 ranks and
\* a suit i div 13 among the 4 suits, suit * 13 + rank gives i back, and no
\* two identities have the same rank and suit.
C14_CardBijection ==
    /\ Identities = 0..(DeckSize - 1)
    /\ \A i \in Identities :
           /\ rank(i) \in 0..(NumRanks - 1)
           /\ rank(i) = i % 13
           /\ suit(i) \in 0..3
           /\ suit(i) = i \div 13
           /\ suit(i) * NumRanks + rank(i) = i
    /\ Cardinality({<<rank(i), suit(i)>> : i \in Identities}) = DeckSize

\* A match just made between two cards of one rank and two suits, the first
\* of them a King of the last suit.
C14_Witness ==
    /\ op \in {"forced", "retry"}
    /\ pc = "play"
    /\ LET a == before.tableau[mv[1] + 1].card
           b == before.tableau[mv[1] - mv[2] + 1].card
       IN  /\ rank(a) = rank(b)
           /\ suit(a) # suit(b)
           /\ a = DeckSize - 1

\* The pair a comes before the pair b: an earlier decision point, or the
\* same and an earlier candidate.
IdBefore(a, b) == a[1] < b[1] \/ (a[1] = b[1] /\ a[2] < b[2])

\* C15: the work list is last-in-first-out.  The pair applied after a push is
\* the last candidate of the decision point just pushed; a pair is popped
\* only after a terminal outcome or a push, and it is the one pushed last of
\* those pending; when candidate k of a decision point is applied, the
\* candidates after k and every candidate of every later (deeper) decision
\* point have been applied and their branches have ended, and only earlier
\* pairs are pending.
C15_Lifo ==
    /\ [](/\ \A a \in 1..Len(retry_ids) : \A b \in 1..Len(retry_ids) :
                 a < b => IdBefore(retry_ids[a], retry_ids[b])
          /\ op = "retry" =>
                 /\ \A id \in PendingIds : IdBefore(id, last_id)
                 /\ \A id \in AllIds :
                        IdBefore(last_id, id) =>
                            tried[id[1]][id[2]] = 1 /\ id \notin PendingIds)
    /\ [][op' = "retry" =>
              /\ op \in {"won", "lost", "push"}
              /\ last_id' = retry_ids[Len(retry_ids)]
              /\ mv' = to_retry[Len(to_retry)].m
              /\ to_retry' = SubSeq(to_retry, 1, Len(to_retry) - 1)
              /\ op = "push" =>
                     /\ last_id' = <<Len(decisions), Len(ret.list)>>
                     /\ mv' = ret.list[Len(ret.list)]]_vars

\* The search is back at a candidate that is not the last of its decision
\* point, after the decision points below the later candidates were
\* explored, with pairs of earlier decision points still pending.
C15_Witness ==
    /\ op = "retry"
    /\ last_id[2] < Len(decisions[last_id[1]].list)
    /\ Len(decisions) > last_id[1]
    /\ to_retry # <<>>

\* C16: every pending pair holds the cursor and the tableau (cards and flags)
\* that play_to_choice returned its decision point with, whatever was done
\* since; a pop restores exactly these, applies the candidate to them, and
\* changes neither the deck's list nor choice_points.
C16_SnapshotFidelity ==
    /\ [](/\ \A i \in 1..Len(to_retry) :
                 /\ to_retry[i].saved = Snapshot(retry_ids[i][1])
                 /\ to_retry[i].m = decisions[retry_ids[i][1]].list[retry_ids[i][2]]
          /\ (pc = "returned" /\ ret.tag = "ChooseOne") =>
                 save_game(deck, tableau) = Snapshot(Len(decisions))
          /\ (op = "retry" /\ pc # "panic") =>
                 /\ before = Snapshot(last_id[1])
                 /\ deck.pos = Snapshot(last_id[1]).pos
                 /\ tableau = make_match(Snapshot(last_id[1]).tableau,
                                         decisions[last_id[1]].list[last_id[2]]))
    /\ [][op' = "retry" =>
              /\ deck'.list = deck.list
              /\ choice_points' = choice_points
              /\ deck' = restore(deck, Snapshot(last_id'[1]))]_vars

\* The first candidate of a decision point is applied after the search went
\* on to later decision points further down the deck.
C16_Witness ==
    /\ op = "retry"
    /\ pc = "play"
    /\ last_id[2] = 1
    /\ Len(decisions) > last_id[1]
    /\ decisions[Len(decisions)].pos > before.pos
    /\ decisions[Len(decisions)].tableau # before.tableau

\* C17: whenever make_match((i, d)) is executed, as a forced move or as a
\* chosen move after restore, the cards at i and at i - d of the tableau it
\* acts on share a suit or a rank.
C17_OnlyRealMatches ==
    (op \in {"forced", "retry"} /\ pc # "panic") =>
        RealMatch(before.tableau, mv[1], mv[2])

\* The (position, distance) pairs of t whose two cards share a suit or a rank.
RealPairs(t) ==
    {m \in (0..(Len(t) - 1)) \X {1, 3} : RealMatch(t, m[1], m[2])}

\* C18: play_to_choice deals a card, or returns GameWon or GameLost, only
\* from a tableau in which no card shares a suit or a rank with the card 1 or
\* 3 slots to its left, and plays a move as forced only from a tableau with
\* exactly one such (position, distance) pair.
C18_NoMatchOverlooked ==
    /\ op = "deal" => RealPairs(SubSeq(tableau, 1, Len(tableau) - 1)) = {}
    /\ op = "terminal" => RealPairs(tableau) = {}
    /\ op = "forced" => Cardinality(RealPairs(before.tableau)) = 1

\* The Matches that are about to be passed to make_match: the single candidate
\* of a tableau being played, and the candidates waiting in the work list,
\* each with the tableau it will be applied to.
MovesAhead ==
    (IF pc = "play" /\ Len(find_matches(tableau)) = 1
     THEN {<<tableau, find_matches(tableau)[1]>>} ELSE {}) \cup
    {<<to_retry[k].saved.tableau, to_retry[k].m>> : k \in 1..Len(to_retry)}

\* C19: every Match (i, d) passed to make_match, found in the current tableau
\* or popped from the work list and applied after restore, has d in {1, 3}
\* and d <= i < tableau length; play_one never panics on an index.
C19_NoOutOfRange ==
    /\ pc # "panic"
    /\ \A x \in MovesAhead :
           /\ x[2][2] \in {1, 3}
           /\ x[2][2] <= x[2][1]
           /\ x[2][1] < Len(x[1])
    /\ op \in {"forced", "retry"} =>
           /\ mv[2] \in {1, 3}
           /\ mv[2] <= mv[1]
           /\ mv[1] < Len(before.tableau)
           /\ mv[1] - mv[2] < Len(before.tableau) - 1
    /\ \A p \in 0..(Len(tableau) - 1) :
           /\ tableau[p + 1].matches_one => p >= 1
           /\ tableau[p + 1].matches_three => p >= 3

\* A chosen move of distance 3 applied at slot 3, the lowest it can be, after
\* restore.
C19_Witness ==
    /\ op = "retry"
    /\ pc = "play"
    /\ mv = <<3, 3>>
    /\ Len(before.tableau) = 4

\* What is left for play_to_choice to do: two for every card still in the
\* deck (its deal and a match of it), one for every card of the tableau.
Remaining == 2 * (Len(deck.list) - deck.pos) + Len(tableau)

\* C20: every iteration of play_to_choice advances the cursor by one (a deal),
\* or shrinks the tableau by one (a forced match), or returns, so each call
\* returns; and play_one returns in the end, with the work list empty and a
\* classification when the cap is out of reach.
C20_Termination ==
    /\ [][pc = "play" =>
              \/ /\ deck'.pos = deck.pos + 1
                 /\ Len(tableau') = Len(tableau) + 1
                 /\ pc' = "play"
              \/ /\ deck' = deck
                 /\ Len(tableau') = Len(tableau) - 1
                 /\ pc' = "play"
              \/ /\ pc' = "returned"
                 /\ tableau' = tableau]_vars
    /\ [][(pc = "play" /\ pc' = "play") => Remaining' = Remaining - 1]_vars
    /\ [](Remaining >= 0)
    /\ (pc = "play") ~> (pc = "returned")
    /\ <>(pc = "done")
    /\ (cap = CapLimit) ~> (Classified /\ to_retry = <<>>)

\* A search with several decision points that returned its classification
\* with the cap far out of reach.
C20_Witness ==
    /\ Classified
    /\ cap = CapLimit
    /\ choice_points >= 3
    /\ wins + losses >= 4
    /\ to_retry = <<>>

=============================================================================
